---- MODULE Spec2Model ----
(***************************************************************************)
(* The web/API layer of the annotation tool (app/server/views.py) as a     *)
(* state machine.  The state is the content of the database tables the     *)
(* views read and write (Project, Document, Label and the three Annotation *)
(* tables) plus the request being answered with its response.  Every      *)
(* request action is one HTTP request handled from dispatch to response:   *)
(* the permission classes in the order of permission_classes, then the     *)
(* handler.  Respond sends the response and frees the server for the next  *)
(* request.                                                                *)
(***************************************************************************)
EXTENDS Integers, Sequences, FiniteSets, TLC

(* ---------------------------- bounds ----------------------------------- *)
MaxDocs == 2
MaxLabels == 1
MaxAnnotations == 2
MaxRows == 2

(* ------------------------ the fixture of the model --------------------- *)
\* request.user: an authenticated user is its id, the anonymous user is 0
AnonymousUser == 0
Users == {1, 10}
Staff == {10}
Requesters == Users \cup {AnonymousUser}

DOCUMENT_CLASSIFICATION == "DocumentClassification"
SEQUENCE_LABELING == "SequenceLabeling"
Seq2seq == "Seq2seq"
ProjectTypes == {DOCUMENT_CLASSIFICATION, SEQUENCE_LABELING, Seq2seq}

ProjectIds == {1, 2}
\* ids a URL can carry: the projects and one id that names no project
UrlProjectIds == ProjectIds \cup {3}
Texts == {"a", "b"}
LabelTexts == {"pos"}

SAFE_METHODS == {"GET", "HEAD", "OPTIONS"}

VARIABLES
    projects,      \* Project table: id -> [project_type, users]
    documents,     \* Document table: sequence, the id is the index
    labels,        \* Label table: sequence, the id is the index
    annotations,   \* the three Annotation tables: set of rows tagged by cls
    next_id,       \* per Annotation table: the next auto-increment id
    resp           \* the request being answered and its response

store == <<projects, documents, labels, annotations, next_id>>
vars == <<projects, documents, labels, annotations, next_id, resp>>

AnnotationClasses == {"DocumentAnnotation", "SequenceAnnotation", "Seq2seqAnnotation"}

(* ------------------------------ helpers -------------------------------- *)
Min(S) == CHOOSE x \in S : \A y \in S : x <= y

RECURSIVE SortedSeq(_)
SortedSeq(S) == IF S = {} THEN <<>> ELSE <<Min(S)>> \o SortedSeq(S \ {Min(S)})

RECURSIVE Flatten(_)
Flatten(ss) == IF ss = <<>> THEN <<>> ELSE Head(ss) \o Flatten(Tail(ss))

Range(s) == {s[i] : i \in DOMAIN s}

\* the decimal digits of a non-negative integer (str(id) in a LIKE pattern)
RECURSIVE Digits(_)
Digits(n) == IF n < 10 THEN <<n>> ELSE Digits(n \div 10) \o <<n % 10>>

\* SQL  s LIKE '%t%'
Contains(s, t) ==
    \E i \in 0..(Len(s) - Len(t)) : SubSeq(s, i + 1, i + Len(t)) = t

(* ------------------- the model layer the views call -------------------- *)
DocIds == DOMAIN documents
LabelIds == DOMAIN labels

get_annotation_class(pid) ==
    CASE projects[pid].project_type = DOCUMENT_CLASSIFICATION -> "DocumentAnnotation"
      [] projects[pid].project_type = SEQUENCE_LABELING -> "SequenceAnnotation"
      [] projects[pid].project_type = Seq2seq -> "Seq2seqAnnotation"

\* Annotation.objects of one table
Objects(cls) == {a \in annotations : a.cls = cls}

\* Document.get_annotations(): the rows of the table of the document's own
\* project that point at the document
get_annotations(did) ==
    {a \in Objects(get_annotation_class(documents[did].project)) : a.document = did}

ProjectDocuments(pid) == {d \in DocIds : documents[d].project = pid}

\* Project.get_documents(is_null): the documents of the project joined with
\* the annotation table of the project's type; one row per (document,
\* annotation) pair when is_null is false, one row per document without
\* annotation when it is true.  The rows come in id order.
get_documents(pid, is_null) ==
    LET cls == get_annotation_class(pid)
        rows(d) == {a \in Objects(cls) : a.document = d}
        ds == SortedSeq(ProjectDocuments(pid))
    IN  IF is_null
        THEN SelectSeq(ds, LAMBDA d : rows(d) = {})
        ELSE Flatten([i \in DOMAIN ds |-> [k \in 1..Cardinality(rows(ds[i])) |-> ds[i]]])

\* QuerySet.distinct() on rows in id order
distinct(rows) == SortedSeq(Range(rows))

\* Document.make_dataset(): the export rows of one document
make_dataset(did) == << <<did, documents[did].text>> >>

(* --------------------------- permissions ------------------------------- *)
\* A permission class answers "ok" or "deny", or raises: "Http404" from
\* get_object_or_404, "DoesNotExist" from Model.objects.get.
IsAuthenticated(user) == IF user \in Users THEN "ok" ELSE "deny"

IsAdminUser(user) == IF user \in Users /\ user \in Staff THEN "ok" ELSE "deny"

IsProjectUser_open(user, pid) ==
    IF pid \notin DOMAIN projects THEN "Http404" ELSE "ok"

IsProjectUser(user, pid) ==
    IF pid \notin DOMAIN projects THEN "Http404"
    ELSE IF user \in projects[pid].users THEN "ok" ELSE "deny"

IsAdminUserAndWriteOnly_open(method, user) == "ok"

IsAdminUserAndWriteOnly(method, user) ==
    IF method \in SAFE_METHODS THEN "ok" ELSE IsAdminUser(user)

IsOwnAnnotation(user, pid, aid) ==
    IF pid \notin DOMAIN projects THEN "Http404"
    ELSE LET found == {a \in Objects(get_annotation_class(pid)) : a.id = aid}
         IN  IF found = {} THEN "DoesNotExist"
             ELSE IF (CHOOSE a \in found : TRUE).user = user THEN "ok" ELSE "deny"

has_permission(cls, method, user, pid, aid) ==
    CASE cls = "IsAuthenticated" -> IsAuthenticated(user)
      [] cls = "IsProjectUser" -> IsProjectUser(user, pid)
      [] cls = "IsAdminUserAndWriteOnly" -> IsAdminUserAndWriteOnly(method, user)
      [] cls = "IsAdminUser" -> IsAdminUser(user)
      [] cls = "IsOwnAnnotation" -> IsOwnAnnotation(user, pid, aid)

\* APIView.check_permissions: the classes in order, the first one that does
\* not answer "ok" ends the request.  The result is "ok", the name of the
\* class that denied, or the exception a class raised.
RECURSIVE check_permissions(_, _, _, _, _)
check_permissions(classes, method, user, pid, aid) ==
    IF classes = <<>> THEN "ok"
    ELSE LET r == has_permission(Head(classes), method, user, pid, aid)
         IN  IF r = "ok" THEN check_permissions(Tail(classes), method, user, pid, aid)
             ELSE IF r = "deny" THEN Head(classes)
             ELSE r

PermissionStatus(perm) ==
    CASE perm = "Http404" -> 404
      [] perm = "DoesNotExist" -> 500
      [] OTHER -> 403

\* request.FILES without csv_file
NoFile == [present |-> FALSE, rows |-> <<>>]

\* the last request (view, method, user, project id of the URL, whether it
\* named an object that does not exist, request.FILES) and its response
\* (the outcome of the permission checks, the status, the body)
Response(view, method, user, pid, missing, perm, status, body) ==
    [view |-> view, method |-> method, user |-> user, project_id |-> pid,
     names_missing |-> missing, file |-> NoFile,
     perm |-> perm, status |-> status, body |-> body]

Denied(view, method, user, pid, missing, perm) ==
    Response(view, method, user, pid, missing, perm, PermissionStatus(perm), <<>>)

\* no request is being answered
NoResponse == Response("none", "GET", AnonymousUser, 0, FALSE, "ok", 0, <<>>)

(* ------------------------------- Init ---------------------------------- *)
\* the projects of the deployment: project 1 has both users as members,
\* project 2 the staff user alone; the types take one of three assignments
\* in which every type occurs for both projects
ProjectUsers == (1 :> {1, 10}) @@ (2 :> {10})
InitProjectTypes ==
    {(1 :> Seq2seq) @@ (2 :> DOCUMENT_CLASSIFICATION),
     (1 :> DOCUMENT_CLASSIFICATION) @@ (2 :> SEQUENCE_LABELING),
     (1 :> SEQUENCE_LABELING) @@ (2 :> Seq2seq)}

Init ==
    /\ \E types \in InitProjectTypes :
         projects = [p \in ProjectIds |->
                        [project_type |-> types[p], users |-> ProjectUsers[p]]]
    /\ documents = <<>>
    /\ labels = <<>>
    /\ annotations = {}
    /\ next_id = [c \in AnnotationClasses |-> 1]
    /\ resp = NoResponse

(* --------------------------- ProjectViewSet ---------------------------- *)
ProjectViewSet_permissions == <<"IsAuthenticated", "IsAdminUserAndWriteOnly">>

\* users__id__contains = user.id through the members join: one row per
\* member of the project whose id, as text, contains the user's id
Matches(member, user) == Contains(Digits(member), Digits(user))

ProjectViewSet_get_queryset(user) ==
    LET ps == SortedSeq(DOMAIN projects)
        hits(p) == {m \in projects[p].users : Matches(m, user)}
    IN  Flatten([i \in DOMAIN ps |-> [k \in 1..Cardinality(hits(ps[i])) |-> ps[i]]])

\* GenericAPIView.get_object on the queryset: get_object_or_404(queryset, pk=pk)
\* is queryset.get(pk=pk): no row is Http404, two rows or more is
\* MultipleObjectsReturned
ProjectViewSet_get_object(user, pk) ==
    LET n == Len(SelectSeq(ProjectViewSet_get_queryset(user), LAMBDA p : p = pk))
    IN  IF n = 0 THEN 404 ELSE IF n = 1 THEN 200 ELSE 500

ProjectViewSet_list(user) ==
    /\ resp = NoResponse
    /\ LET perm == check_permissions(ProjectViewSet_permissions, "GET", user, 0, 0)
       IN  /\ resp' = IF perm # "ok"
                      THEN Denied("ProjectViewSet.list", "GET", user, 0, FALSE, perm)
                      ELSE Response("ProjectViewSet.list", "GET", user, 0, FALSE, perm, 200,
                                    ProjectViewSet_get_queryset(user))
           /\ UNCHANGED store

ProjectViewSet_retrieve(user, pk) ==
    /\ resp = NoResponse
    /\ LET perm == check_permissions(ProjectViewSet_permissions, "GET", user, pk, 0)
           missing == pk \notin DOMAIN projects
       IN  /\ resp' = IF perm # "ok"
                      THEN Denied("ProjectViewSet.retrieve", "GET", user, pk, missing, perm)
                      ELSE LET found == ProjectViewSet_get_object(user, pk)
                           IN  Response("ProjectViewSet.retrieve", "GET", user, pk, missing, perm,
                                        found, IF found = 200 THEN <<pk>> ELSE <<>>)
           /\ UNCHANGED store

progress_body(pid) ==
    [total |-> Cardinality(ProjectDocuments(pid)),
     remaining |-> Len(get_documents(pid, TRUE))]

ProjectViewSet_progress(user, pk) ==
    /\ resp = NoResponse
    /\ LET perm == check_permissions(ProjectViewSet_permissions, "GET", user, pk, 0)
           missing == pk \notin DOMAIN projects
       IN  /\ resp' = IF perm # "ok"
                      THEN Denied("ProjectViewSet.progress", "GET", user, pk, missing, perm)
                      ELSE LET found == ProjectViewSet_get_object(user, pk)
                           IN  Response("ProjectViewSet.progress", "GET", user, pk, missing, perm,
                                        found, IF found = 200 THEN progress_body(pk) ELSE <<>>)
           /\ UNCHANGED store

\* UpdateModelMixin.update / partial_update through ProjectSerializer.  The
\* tables of the model keep the fields the views of the file read
\* (project_type, users); the update writes the descriptive fields (name,
\* description), which no view reads back, so the tables stay as they are.
ProjectViewSet_update(method, user, pk) ==
    /\ resp = NoResponse
    /\ LET perm == check_permissions(ProjectViewSet_permissions, method, user, pk, 0)
           missing == pk \notin DOMAIN projects
           found == ProjectViewSet_get_object(user, pk)
       IN  /\ resp' = IF perm # "ok"
                      THEN Denied("ProjectViewSet.update", method, user, pk, missing, perm)
                      ELSE Response("ProjectViewSet.update", method, user, pk, missing, perm,
                                    found, IF found = 200 THEN <<pk>> ELSE <<>>)
           /\ UNCHANGED store

(* ----------------- ProjectLabelsAPI, ProjectLabelAPI ------------------- *)
ProjectLabelsAPI_permissions ==
    <<"IsAuthenticated", "IsProjectUser", "IsAdminUserAndWriteOnly">>

ProjectLabelsAPI_get_queryset(pid) ==
    SelectSeq(SortedSeq(LabelIds), LAMBDA l : labels[l].project = pid)

ProjectLabelsAPI_get(user, pid) ==
    /\ resp = NoResponse
    /\ LET perm == check_permissions(ProjectLabelsAPI_permissions, "GET", user, pid, 0)
           missing == pid \notin DOMAIN projects
       IN  /\ resp' = IF perm # "ok"
                      THEN Denied("ProjectLabelsAPI", "GET", user, pid, missing, perm)
                      ELSE Response("ProjectLabelsAPI", "GET", user, pid, missing, perm, 200,
                                    ProjectLabelsAPI_get_queryset(pid))
           /\ UNCHANGED store

\* CreateModelMixin.create, perform_create saves the label with the project
ProjectLabelsAPI_post(user, pid, text) ==
    /\ resp = NoResponse
    /\ LET perm == check_permissions(ProjectLabelsAPI_permissions, "POST", user, pid, 0)
           missing == pid \notin DOMAIN projects
       IN  IF perm # "ok"
           THEN /\ resp' = Denied("ProjectLabelsAPI", "POST", user, pid, missing, perm)
                /\ UNCHANGED store
           ELSE /\ Len(labels) < MaxLabels
                /\ labels' = Append(labels, [project |-> pid, text |-> text])
                /\ resp' = Response("ProjectLabelsAPI", "POST", user, pid, missing, perm, 201,
                                    <<Len(labels) + 1>>)
                /\ UNCHANGED <<projects, documents, annotations, next_id>>

ProjectLabelAPI_permissions == <<"IsAuthenticated", "IsProjectUser", "IsAdminUser">>

ProjectLabelAPI_get(user, pid, label_id) ==
    /\ resp = NoResponse
    /\ LET perm == check_permissions(ProjectLabelAPI_permissions, "GET", user, pid, 0)
           missing == pid \notin DOMAIN projects \/ label_id \notin LabelIds
       IN  /\ resp' = IF perm # "ok"
                      THEN Denied("ProjectLabelAPI", "GET", user, pid, missing, perm)
                      ELSE IF label_id \in Range(ProjectLabelsAPI_get_queryset(pid))
                      THEN Response("ProjectLabelAPI", "GET", user, pid, missing, perm, 200,
                                    <<label_id>>)
                      ELSE Response("ProjectLabelAPI", "GET", user, pid, missing, perm, 404, <<>>)
           /\ UNCHANGED store

(* --------------------------- ProjectStatsAPI ---------------------------- *)
ProjectStatsAPI_permissions ==
    <<"IsAuthenticated", "IsProjectUser", "IsAdminUserAndWriteOnly">>

\* Counter(chain(*nested))[name] for each name
ProjectStatsAPI_body(pid) ==
    LET ls == ProjectLabelsAPI_get_queryset(pid)
        us == SortedSeq(projects[pid].users)
        as == UNION {get_annotations(d) : d \in ProjectDocuments(pid)}
    IN  [label |-> [i \in DOMAIN ls |->
                      Cardinality({a \in as : labels[a.label].text = labels[ls[i]].text})],
         user |-> [i \in DOMAIN us |-> Cardinality({a \in as : a.user = us[i]})]]

\* a Seq2seqAnnotation has no label: a.label raises AttributeError
ProjectStatsAPI_get(user, pid) ==
    /\ resp = NoResponse
    /\ LET perm == check_permissions(ProjectStatsAPI_permissions, "GET", user, pid, 0)
           missing == pid \notin DOMAIN projects
       IN  /\ resp' = IF perm # "ok"
                      THEN Denied("ProjectStatsAPI", "GET", user, pid, missing, perm)
                      ELSE IF \E d \in ProjectDocuments(pid) :
                                \E a \in get_annotations(d) : a.cls = "Seq2seqAnnotation"
                      THEN Response("ProjectStatsAPI", "GET", user, pid, missing, perm, 500, <<>>)
                      ELSE Response("ProjectStatsAPI", "GET", user, pid, missing, perm, 200,
                                    ProjectStatsAPI_body(pid))
           /\ UNCHANGED store

\* the view has no handler but get: after the permission checks,
\* http_method_not_allowed
ProjectStatsAPI_other(method, user, pid) ==
    /\ resp = NoResponse
    /\ LET perm == check_permissions(ProjectStatsAPI_permissions, method, user, pid, 0)
           missing == pid \notin DOMAIN projects
       IN  /\ resp' = IF perm # "ok"
                      THEN Denied("ProjectStatsAPI", method, user, pid, missing, perm)
                      ELSE Response("ProjectStatsAPI", method, user, pid, missing, perm, 405, <<>>)
           /\ UNCHANGED store

(* ---------------------------- ProjectDocsAPI ---------------------------- *)
ProjectDocsAPI_permissions ==
    <<"IsAuthenticated", "IsProjectUser", "IsAdminUserAndWriteOnly">>

\* is_checked: "" when the parameter is absent
ProjectDocsAPI_get_queryset(pid, is_checked) ==
    IF is_checked = "" THEN SortedSeq(ProjectDocuments(pid))
    ELSE distinct(get_documents(pid, is_checked = "true"))

ProjectDocsAPI_get(user, pid, is_checked) ==
    /\ resp = NoResponse
    /\ LET perm == check_permissions(ProjectDocsAPI_permissions, "GET", user, pid, 0)
           missing == pid \notin DOMAIN projects
       IN  /\ resp' = IF perm # "ok"
                      THEN Denied("ProjectDocsAPI", "GET", user, pid, missing, perm)
                      ELSE Response("ProjectDocsAPI", "GET", user, pid, missing, perm, 200,
                                    ProjectDocsAPI_get_queryset(pid, is_checked))
           /\ UNCHANGED store

\* CreateModelMixin.create with the serializer of the project
ProjectDocsAPI_post(user, pid, text) ==
    /\ resp = NoResponse
    /\ LET perm == check_permissions(ProjectDocsAPI_permissions, "POST", user, pid, 0)
           missing == pid \notin DOMAIN projects
       IN  IF perm # "ok"
           THEN /\ resp' = Denied("ProjectDocsAPI", "POST", user, pid, missing, perm)
                /\ UNCHANGED store
           ELSE /\ Len(documents) < MaxDocs
                /\ documents' = Append(documents, [project |-> pid, text |-> text])
                /\ resp' = Response("ProjectDocsAPI", "POST", user, pid, missing, perm, 201,
                                    <<Len(documents) + 1>>)
                /\ UNCHANGED <<projects, labels, annotations, next_id>>

(* ---------------------------- AnnotationsAPI ---------------------------- *)
AnnotationsAPI_permissions == <<"IsAuthenticated", "IsProjectUser">>

AnnotationsAPI_get(user, pid, doc_id) ==
    /\ resp = NoResponse
    /\ LET perm == check_permissions(AnnotationsAPI_permissions, "GET", user, pid, 0)
           missing == pid \notin DOMAIN projects \/ doc_id \notin DocIds
       IN  /\ resp' = IF perm # "ok"
                      THEN Denied("AnnotationsAPI", "GET", user, pid, missing, perm)
                      ELSE IF doc_id \notin ProjectDocuments(pid)
                      THEN Response("AnnotationsAPI", "GET", user, pid, missing, perm, 404, <<>>)
                      ELSE Response("AnnotationsAPI", "GET", user, pid, missing, perm, 200,
                                    get_annotations(doc_id))
           /\ UNCHANGED store

\* the annotation post() builds: the branch, and with it the class and the
\* fields, follows the type of the project of the URL; the document is the
\* one looked up by doc_id alone
NewAnnotation(user, pid, doc_id, label_id, text) ==
    CASE projects[pid].project_type = DOCUMENT_CLASSIFICATION ->
            [cls |-> "DocumentAnnotation", id |-> next_id["DocumentAnnotation"],
             document |-> doc_id, user |-> user, label |-> label_id, text |-> ""]
      [] projects[pid].project_type = SEQUENCE_LABELING ->
            [cls |-> "SequenceAnnotation", id |-> next_id["SequenceAnnotation"],
             document |-> doc_id, user |-> user, label |-> label_id, text |-> ""]
      [] projects[pid].project_type = Seq2seq ->
            [cls |-> "Seq2seqAnnotation", id |-> next_id["Seq2seqAnnotation"],
             document |-> doc_id, user |-> user, label |-> 0, text |-> text]

AnnotationsCreated == next_id["DocumentAnnotation"] + next_id["SequenceAnnotation"]
                        + next_id["Seq2seqAnnotation"] - 3

\* request.data carries label_id, text (and the offsets, which no view reads
\* back and the model leaves out)
AnnotationsAPI_post(user, pid, doc_id, label_id, text) ==
    /\ resp = NoResponse
    /\ LET perm == check_permissions(AnnotationsAPI_permissions, "POST", user, pid, 0)
           needs_label == pid \in DOMAIN projects /\ projects[pid].project_type # Seq2seq
           missing == \/ pid \notin DOMAIN projects
                      \/ doc_id \notin DocIds
                      \/ (needs_label /\ label_id \notin LabelIds)
       IN  IF perm # "ok"
           THEN /\ resp' = Denied("AnnotationsAPI", "POST", user, pid, missing, perm)
                /\ UNCHANGED store
           ELSE IF doc_id \notin DocIds \/ (needs_label /\ label_id \notin LabelIds)
           THEN /\ resp' = Response("AnnotationsAPI", "POST", user, pid, missing, perm, 404, <<>>)
                /\ UNCHANGED store
           ELSE LET a == NewAnnotation(user, pid, doc_id, label_id, text)
                IN  /\ AnnotationsCreated < MaxAnnotations
                    /\ annotations' = annotations \cup {a}
                    /\ next_id' = [next_id EXCEPT ![a.cls] = @ + 1]
                    /\ resp' = Response("AnnotationsAPI", "POST", user, pid, missing, perm, 200,
                                        <<a>>)
                    /\ UNCHANGED <<projects, documents, labels>>

(* ----------------------------- AnnotationAPI ---------------------------- *)
AnnotationAPI_permissions == <<"IsAuthenticated", "IsProjectUser", "IsOwnAnnotation">>

\* the request names no existing object: the project, the document, or an
\* annotation of the project's annotation class
AnnotationAPI_missing(pid, doc_id, annotation_id) ==
    \/ pid \notin DOMAIN projects
    \/ doc_id \notin DocIds
    \/ ~ \E a \in Objects(get_annotation_class(pid)) : a.id = annotation_id

\* get_object(): the annotations of the document (of the table of the
\* document's own project) filtered by pk; {} stands for Http404
AnnotationAPI_get_object(doc_id, annotation_id) ==
    IF doc_id \notin DocIds THEN {}
    ELSE {a \in get_annotations(doc_id) : a.id = annotation_id}

\* retrieve and partial_update: get_object(), then get_serializer(), which
\* fails its assertion because the view sets no serializer_class
AnnotationAPI_get_or_patch(method, user, pid, doc_id, annotation_id) ==
    /\ resp = NoResponse
    /\ LET perm == check_permissions(AnnotationAPI_permissions, method, user, pid, annotation_id)
           missing == AnnotationAPI_missing(pid, doc_id, annotation_id)
       IN  /\ resp' = IF perm # "ok"
                      THEN Denied("AnnotationAPI", method, user, pid, missing, perm)
                      ELSE IF AnnotationAPI_get_object(doc_id, annotation_id) = {}
                      THEN Response("AnnotationAPI", method, user, pid, missing, perm, 404, <<>>)
                      ELSE Response("AnnotationAPI", method, user, pid, missing, perm, 500, <<>>)
           /\ UNCHANGED store

\* DestroyModelMixin.destroy: get_object(), then delete
AnnotationAPI_delete(user, pid, doc_id, annotation_id) ==
    /\ resp = NoResponse
    /\ LET perm == check_permissions(AnnotationAPI_permissions, "DELETE", user, pid, annotation_id)
           missing == AnnotationAPI_missing(pid, doc_id, annotation_id)
           obj == AnnotationAPI_get_object(doc_id, annotation_id)
       IN  IF perm # "ok"
           THEN /\ resp' = Denied("AnnotationAPI", "DELETE", user, pid, missing, perm)
                /\ UNCHANGED store
           ELSE IF obj = {}
           THEN /\ resp' = Response("AnnotationAPI", "DELETE", user, pid, missing, perm, 404, <<>>)
                /\ UNCHANGED store
           ELSE /\ annotations' = annotations \ obj
                /\ resp' = Response("AnnotationAPI", "DELETE", user, pid, missing, perm, 204, <<>>)
                /\ UNCHANGED <<projects, documents, labels, next_id>>

\* the annotation put() saves: the Seq2seqAnnotation whose pk is the id of the
\* request body
AnnotationAPI_put_target(annotation_id, body_id) ==
    {a \in Objects("Seq2seqAnnotation") : a.id = body_id}

AnnotationAPI_put(user, pid, doc_id, annotation_id, body_id, text) ==
    /\ resp = NoResponse
    /\ LET perm == check_permissions(AnnotationAPI_permissions, "PUT", user, pid, annotation_id)
           is_seq2seq == pid \in DOMAIN projects /\ projects[pid].project_type = Seq2seq
           target == AnnotationAPI_put_target(annotation_id, body_id)
           missing == \/ AnnotationAPI_missing(pid, doc_id, annotation_id)
                      \/ (is_seq2seq /\ target = {})
       IN  IF perm # "ok"
           THEN /\ resp' = Denied("AnnotationAPI", "PUT", user, pid, missing, perm)
                /\ UNCHANGED store
           ELSE IF doc_id \notin DocIds \/ (is_seq2seq /\ target = {})
           THEN /\ resp' = Response("AnnotationAPI", "PUT", user, pid, missing, perm, 404, <<>>)
                /\ UNCHANGED store
           ELSE IF ~ is_seq2seq
           \* annotation is never bound: UnboundLocalError
           THEN /\ resp' = Response("AnnotationAPI", "PUT", user, pid, missing, perm, 500, <<>>)
                /\ UNCHANGED store
           ELSE LET old == CHOOSE a \in target : TRUE
                    new == [old EXCEPT !.text = text]
                IN  /\ annotations' = (annotations \ {old}) \cup {new}
                    /\ resp' = Response("AnnotationAPI", "PUT", user, pid, missing, perm, 200,
                                        <<new>>)
                    /\ UNCHANGED <<projects, documents, labels, next_id>>

(* ----------------------------- DatasetUpload ---------------------------- *)
\* A row of the uploaded file as csv.reader yields it: its columns, or the
\* point where decoding the bytes fails; saves tells whether Document.save()
\* of the row's document succeeds.  A blank line has no column.
CsvRows ==
    {[decodable |-> TRUE, columns |-> c, saves |-> TRUE] : c \in {<<>>, <<"a">>, <<"b", "a">>}}
        \cup {[decodable |-> FALSE, columns |-> <<>>, saves |-> TRUE],
              [decodable |-> TRUE, columns |-> <<"a">>, saves |-> FALSE]}

RowSeqs == UNION {[1..n -> CsvRows] : n \in 0..MaxRows}

\* request.FILES: no csv_file, or the rows of csv_file
Files == {NoFile} \cup {[present |-> TRUE, rows |-> rs] : rs \in RowSeqs}

\* the row raises: UnicodeDecodeError, IndexError on line[0], or the save
RowFails(line) == ~ line.decodable \/ line.columns = <<>> \/ ~ line.saves

line_text_last(line) == line.columns[Len(line.columns)]

\* text = line[0]
line_text(line) == line.columns[1]

\* the body of the try block: the for loop from row i with the documents
\* saved so far; the result is the Document table and whether an exception
\* ended the loop
RECURSIVE upload_rows_atomic(_, _, _, _)
upload_rows_atomic(rows, pid, i, docs) ==
    IF i > Len(rows) THEN [documents |-> docs, failed |-> FALSE]
    ELSE IF RowFails(rows[i]) THEN [documents |-> documents, failed |-> TRUE]
    ELSE upload_rows_atomic(rows, pid, i + 1,
                            Append(docs, [project |-> pid, text |-> line_text(rows[i])]))

RECURSIVE upload_rows(_, _, _, _)
upload_rows(rows, pid, i, docs) ==
    IF i > Len(rows) THEN [documents |-> docs, failed |-> FALSE]
    ELSE IF RowFails(rows[i]) THEN [documents |-> docs, failed |-> TRUE]
    ELSE upload_rows(rows, pid, i + 1,
                     Append(docs, [project |-> pid, text |-> line_text(rows[i])]))

DatasetUpload_try(file, pid) ==
    IF ~ file.present THEN [documents |-> documents, failed |-> TRUE]
    ELSE upload_rows(file.rows, pid, 1, documents)

UploadResponse(user, pid, file, status, location) ==
    [Response("DatasetUpload", "POST", user, pid, pid \notin DOMAIN projects,
              "ok", status, location) EXCEPT !.file = file]

DatasetUpload_post(user, pid, file) ==
    /\ resp = NoResponse
    /\ IF user \notin Users
       \* LoginRequiredMixin
       THEN /\ resp' = [UploadResponse(user, pid, file, 302, "login")
                           EXCEPT !.perm = "LoginRequiredMixin"]
            /\ UNCHANGED store
       ELSE IF pid \notin DOMAIN projects
       THEN /\ resp' = UploadResponse(user, pid, file, 404, <<>>)
            /\ UNCHANGED store
       ELSE LET r == DatasetUpload_try(file, pid)
            IN  /\ Len(r.documents) <= MaxDocs
                /\ documents' = r.documents
                /\ resp' = UploadResponse(user, pid, file, 302,
                                          IF r.failed THEN "dataset-upload" ELSE "dataset")
                /\ UNCHANGED <<projects, labels, annotations, next_id>>

(* ------------------------------ DataDownload ---------------------------- *)
DataDownload_docs_joined(pid) == get_documents(pid, FALSE)

\* docs = project.get_documents(is_null=False).distinct()
DataDownload_docs(pid) == distinct(get_documents(pid, FALSE))

\* writer.writerows(d.make_dataset()) for d in docs
DataDownload_rows(docs) == Flatten([i \in DOMAIN docs |-> make_dataset(docs[i])])

DataDownload_get(user, pid) ==
    /\ resp = NoResponse
    /\ /\ resp' = IF pid \notin DOMAIN projects
                  THEN Response("DataDownload", "GET", user, pid, TRUE, "ok", 404, <<>>)
                  ELSE Response("DataDownload", "GET", user, pid, FALSE, "ok", 200,
                                DataDownload_rows(DataDownload_docs(pid)))
       /\ UNCHANGED store

(* -------------------------------- Next ---------------------------------- *)
UrlDocIds == 1..MaxDocs
UrlLabelIds == 1..MaxLabels
UrlAnnotationIds == 1..MaxAnnotations

\* The requests.  Every view looks at the user and at the project first, so
\* the remaining parameters of a request are enumerated for the
\* authenticated users and the existing projects; the requests of the
\* anonymous user and those for a project id that names no project carry
\* the first value of each.
Reads(u, p) == u \in Users /\ p \in DOMAIN projects
DocArgs(u, p) == IF Reads(u, p) THEN UrlDocIds ELSE {1}
LabelArgs(u, p) == IF Reads(u, p) THEN UrlLabelIds ELSE {1}
AnnotationArgs(u, p) == IF Reads(u, p) THEN UrlAnnotationIds ELSE {1}
TextArgs(u, p) == IF Reads(u, p) THEN Texts ELSE {"a"}
FileArgs(u, p) == IF Reads(u, p) THEN Files ELSE {NoFile}

\* the response leaves the server; the next request can be handled
Respond ==
    /\ resp # NoResponse
    /\ resp' = NoResponse
    /\ UNCHANGED store

\* One request at a time, from dispatch to response: the users whose request
\* the server can take up
Waiting == IF resp = NoResponse THEN Requesters ELSE {}

Request ==
    \/ \E u \in Waiting : ProjectViewSet_list(u)
    \/ \E u \in Waiting, p \in UrlProjectIds : ProjectViewSet_retrieve(u, p)
    \/ \E u \in Waiting, p \in UrlProjectIds : ProjectViewSet_progress(u, p)
    \/ \E m \in {"PUT", "PATCH"}, u \in Waiting, p \in UrlProjectIds :
          ProjectViewSet_update(m, u, p)
    \/ \E u \in Waiting, p \in UrlProjectIds : ProjectLabelsAPI_get(u, p)
    \/ \E u \in Waiting, p \in UrlProjectIds, t \in LabelTexts : ProjectLabelsAPI_post(u, p, t)
    \/ \E u \in Waiting, p \in UrlProjectIds : \E l \in LabelArgs(u, p) :
          ProjectLabelAPI_get(u, p, l)
    \/ \E u \in Waiting, p \in UrlProjectIds : ProjectStatsAPI_get(u, p)
    \/ \E m \in {"POST", "DELETE"}, u \in Waiting, p \in UrlProjectIds :
          ProjectStatsAPI_other(m, u, p)
    \/ \E u \in Waiting, p \in UrlProjectIds, c \in {"", "true", "false"} :
          ProjectDocsAPI_get(u, p, c)
    \/ \E u \in Waiting, p \in UrlProjectIds : \E t \in TextArgs(u, p) :
          ProjectDocsAPI_post(u, p, t)
    \/ \E u \in Waiting, p \in UrlProjectIds : \E d \in DocArgs(u, p) :
          AnnotationsAPI_get(u, p, d)
    \/ \E u \in Waiting, p \in UrlProjectIds :
          \E d \in DocArgs(u, p), l \in LabelArgs(u, p), t \in TextArgs(u, p) :
             AnnotationsAPI_post(u, p, d, l, t)
    \/ \E m \in {"GET", "PATCH"}, u \in Waiting, p \in UrlProjectIds :
          \E d \in DocArgs(u, p), a \in AnnotationArgs(u, p) :
             AnnotationAPI_get_or_patch(m, u, p, d, a)
    \/ \E u \in Waiting, p \in UrlProjectIds :
          \E d \in DocArgs(u, p), a \in AnnotationArgs(u, p) :
             AnnotationAPI_delete(u, p, d, a)
    \/ \E u \in Waiting, p \in UrlProjectIds :
          \E d \in DocArgs(u, p), a \in AnnotationArgs(u, p), b \in AnnotationArgs(u, p),
             t \in TextArgs(u, p) : AnnotationAPI_put(u, p, d, a, b, t)
    \/ \E u \in Waiting, p \in UrlProjectIds : \E f \in FileArgs(u, p) :
          DatasetUpload_post(u, p, f)
    \/ \E u \in Waiting, p \in UrlProjectIds : DataDownload_get(u, p)

Next == Request \/ Respond

Spec == Init /\ [][Next]_vars

(* ======================================================================= *)
(* The claims.  A claim about one request is an action property over the   *)
(* step that handles it: resp' is the request and its response, the        *)
(* unprimed tables are the tables before the request.                      *)
(* ======================================================================= *)
Answered == resp # NoResponse
Handled == resp' # NoResponse

IsProjectUserViews ==
    {"ProjectLabelsAPI", "ProjectLabelAPI", "ProjectStatsAPI", "ProjectDocsAPI",
     "AnnotationsAPI", "AnnotationAPI"}

IsAdminUserAndWriteOnlyViews ==
    {"ProjectViewSet.list", "ProjectViewSet.retrieve", "ProjectViewSet.progress",
     "ProjectViewSet.update", "ProjectLabelsAPI", "ProjectDocsAPI", "ProjectStatsAPI"}

\* C1: a request of an authenticated user who is not a member of the existing
\* project of the URL, to any view guarded by IsProjectUser, is denied by
\* IsProjectUser with 403, carries no label of the project and leaves every
\* table unchanged.
C1_NonMemberDenied ==
    [][(/\ Handled
        /\ resp'.view \in IsProjectUserViews
        /\ resp'.user \in Users
        /\ resp'.project_id \in DOMAIN projects
        /\ resp'.user \notin projects[resp'.project_id].users)
       => (/\ resp'.perm = "IsProjectUser"
           /\ resp'.status = 403
           /\ resp'.body = <<>>
           /\ UNCHANGED store)]_vars

\* a non-member has asked for the labels of a project that has a label
C1_Witness ==
    /\ Answered
    /\ resp.view = "ProjectLabelsAPI" /\ resp.method = "GET"
    /\ resp.user \in Users
    /\ resp.project_id \in DOMAIN projects
    /\ resp.user \notin projects[resp.project_id].users
    /\ resp.status = 403
    /\ \E l \in LabelIds : labels[l].project = resp.project_id

UploadHandled ==
    /\ Handled
    /\ resp'.view = "DatasetUpload"
    /\ resp'.user \in Users
    /\ resp'.project_id \in DOMAIN projects

\* the documents the rows 1..n of the file make for project pid
RowDocuments(rows, n, pid) ==
    [i \in 1..n |-> [project |-> pid, text |-> rows[i].columns[1]]]

\* the first row at which the upload raises, 0 when no row does
FailingRow(rows) ==
    IF \E i \in DOMAIN rows : RowFails(rows[i])
    THEN Min({i \in DOMAIN rows : RowFails(rows[i])})
    ELSE 0

\* every row of the file decodes and the save of its document succeeds
Readable(rows) == \A i \in DOMAIN rows : rows[i].decodable /\ rows[i].saves

\* C2 as stated: an upload of a csv_file with N rows (that decode and whose
\* saves succeed) to an existing project appends exactly N documents of the
\* project, the i-th with column 0 of the i-th row as text, and changes
\* nothing else.
C2_EveryFileCreatesAllRows ==
    [][(UploadHandled /\ resp'.file.present /\ Readable(resp'.file.rows))
       => LET rows == resp'.file.rows
              n == Len(rows)
          IN  /\ Len(documents') = Len(documents) + n
              /\ SubSeq(documents', 1, Len(documents)) = documents
              /\ \A i \in 1..n :
                    /\ rows[i].columns # <<>>
                    /\ documents'[Len(documents) + i] =
                          [project |-> resp'.project_id, text |-> rows[i].columns[1]]
              /\ UNCHANGED <<projects, labels, annotations, next_id>>]_vars

\* C2 as amended: the same for a csv_file whose N rows all decode, have a
\* column 0 and are saved without error.
C2_GoodFileCreatesAllRows ==
    [][(/\ UploadHandled
        /\ resp'.file.present
        /\ FailingRow(resp'.file.rows) = 0)
       => (/\ documents' = documents \o RowDocuments(resp'.file.rows, Len(resp'.file.rows),
                                                    resp'.project_id)
           /\ resp'.status = 302 /\ resp'.body = "dataset"
           /\ UNCHANGED <<projects, labels, annotations, next_id>>)]_vars

\* two rows with different first columns, the second with two columns, have
\* been uploaded and made the last two documents
C2_Witness ==
    /\ Answered
    /\ resp.view = "DatasetUpload" /\ resp.status = 302 /\ resp.body = "dataset"
    /\ Len(resp.file.rows) = 2
    /\ resp.file.rows[1].columns = <<"a">>
    /\ resp.file.rows[2].columns = <<"b", "a">>
    /\ Len(documents) >= 2
    /\ documents[Len(documents) - 1] = [project |-> resp.project_id, text |-> "a"]
    /\ documents[Len(documents)] = [project |-> resp.project_id, text |-> "b"]

\* C9: an upload to an existing project that fails (no csv_file, or a first
\* failing row k: undecodable, no column 0, save error) answers with the
\* redirect to the upload form; the documents of the rows before k are
\* stored, none of row k or a later row is, and nothing else changes.
C9_FailedUploadKeepsPrefix ==
    [][(/\ UploadHandled
        /\ (~ resp'.file.present \/ FailingRow(resp'.file.rows) # 0))
       => LET k == IF resp'.file.present THEN FailingRow(resp'.file.rows) ELSE 1
          IN  /\ resp'.status = 302 /\ resp'.body = "dataset-upload"
              /\ documents' = documents \o RowDocuments(resp'.file.rows, k - 1,
                                                       resp'.project_id)
              /\ UNCHANGED <<projects, labels, annotations, next_id>>]_vars

\* an upload has failed at its second row and the document of its first row
\* is stored
C9_Witness ==
    /\ Answered
    /\ resp.view = "DatasetUpload" /\ resp.body = "dataset-upload"
    /\ resp.file.present
    /\ FailingRow(resp.file.rows) = 2
    /\ Len(documents) >= 1
    /\ documents[Len(documents)] =
          [project |-> resp.project_id, text |-> resp.file.rows[1].columns[1]]

\* C3: a step of AnnotationAPI removes or changes only annotations whose user
\* is the requesting user.
C3_OnlyAuthorChanges ==
    [][(Handled /\ resp'.view = "AnnotationAPI")
       => \A a \in annotations : a \notin annotations' => a.user = resp'.user]_vars

\* C4: every stored annotation has the class selected by the project_type of
\* the project of its document.
C4_SubtypeOfOwnProject ==
    \A a \in annotations :
        a.cls = get_annotation_class(documents[a.document].project)

\* C5: on the views guarded by IsAdminUserAndWriteOnly a non-safe request that
\* passes the permission checks comes from a staff user, a non-safe request
\* that does not pass them changes no table, and a safe request is never
\* denied by IsAdminUserAndWriteOnly.
C5_AdminWrites ==
    [][(Handled /\ resp'.view \in IsAdminUserAndWriteOnlyViews)
       => IF resp'.method \in SAFE_METHODS
          THEN resp'.perm # "IsAdminUserAndWriteOnly"
          ELSE /\ resp'.perm = "ok" => resp'.user \in Staff
               /\ resp'.perm # "ok" => UNCHANGED store]_vars

\* a member who is not staff has been denied the creation of a label
C5_Witness ==
    /\ Answered
    /\ resp.view = "ProjectLabelsAPI" /\ resp.method = "POST"
    /\ resp.user \in projects[resp.project_id].users \ Staff
    /\ resp.perm = "IsAdminUserAndWriteOnly" /\ resp.status = 403

\* the rows of the export that come from document d
Contribution(body, d) == SelectSeq(body, LAMBDA row : row[1] = d)

DownloadAnswered ==
    /\ Answered
    /\ resp.view = "DataDownload"
    /\ resp.project_id \in DOMAIN projects

Annotated(d, pid) ==
    \E a \in annotations : a.document = d /\ a.cls = get_annotation_class(pid)

C7_MissingIsNotFound ==
    [][(/\ Handled
        /\ resp'.names_missing
        /\ resp'.perm \in {"ok", "Http404", "DoesNotExist"})
       => (resp'.status = 404 /\ UNCHANGED store)]_vars

\* C8: progress on a project of the requester answers total = the number of documents of the project and
\* remaining = the number of its documents with no annotation, with
\* 0 <= remaining <= total.
C8_Progress ==
    (/\ Answered
     /\ resp.view = "ProjectViewSet.progress"
     /\ resp.status = 200
     /\ resp.user \in projects[resp.project_id].users)
    => LET ds == ProjectDocuments(resp.project_id)
       IN  /\ resp.body.total = Cardinality(ds)
           /\ resp.body.remaining =
                 Cardinality({d \in ds : ~ \E a \in annotations : a.document = d})
           /\ 0 <= resp.body.remaining
           /\ resp.body.remaining <= resp.body.total

\* C10: the projects ProjectViewSet serves to an authenticated user are those
\* whose users contain the user: list answers exactly them, retrieve and
\* progress answer 200 for exactly them.
C10_ExactlyOwnProjects ==
    LET own == {p \in DOMAIN projects : resp.user \in projects[p].users}
    IN  (Answered /\ resp.user \in Users)
        => /\ resp.view = "ProjectViewSet.list" => Range(resp.body) = own
           /\ (resp.view \in {"ProjectViewSet.retrieve", "ProjectViewSet.progress"}
                  /\ resp.project_id \in DOMAIN projects)
                 => (resp.status = 200 <=> resp.project_id \in own)

====
